---- MODULE Spec2Model ----
(***************************************************************************)
(* Model of the process-parallel equation solver MPIEquSolver              *)
(* (src/pie/core/mpi/solver.cc): labeling (partition), work partitioning   *)
(* (post_reset), system distribution (sync) and the batched relaxation     *)
(* protocol (step) run by n_proc cooperating workers.                      *)
(*                                                                         *)
(* Arrays are 0-indexed in the source; here they are sequences, and        *)
(* At(s, k) reads element k of the source array.                           *)
(***************************************************************************)
EXTENDS Integers, Sequences, FiniteSets, TLC

\* ------------------------------------------------------------------ bounds
MaxCells == 4
MaxCount == 12
MaxRanks == 5
MaxProc == 2
MaxN == 2
MaxInterval == 2
MaxIter == 3
MaxDepth == 8
MaxCalls == 4
MaxPending == 2
MaxLife == 5

\* --------------------------------------------------------------- variables
VARIABLES
  \* partition (solver.cc:33-51)
  buf,        \* the solver's buf field: [live, v]
  mask,       \* the mask argument of the last partition call: [n, m, v]
  ret,        \* the array returned by the last partition call: [n, m, v]
  ncalls,     \* number of partition calls so far, counted up to 2
  reshaped,   \* the last call changed the shape and got recycled storage
  \* post_reset's offset loop (solver.cc:59-64) on its own
  oN, oP, oOffset, oDone,
  \* the workers: the solver fields of each process
  n_proc,        \* MPI_Comm_size, line 19
  min_interval,  \* constructor argument, line 16
  N, A, B, X,    \* per worker: the equation system (base class fields)
  offset,        \* per worker: the n_proc + 1 Work Range offsets
  err,           \* per worker: the err[3] accumulator
  out,           \* per worker: what the last step call returned
  \* the workers: where each process is
  pc,            \* per worker: idle, sync, pass, comm, sendwait, bcast, report, failed
  cur,           \* per worker: the call it is in, or made last
  iv, jv, rj,    \* per worker: step's loop counters i and j; the root's receive rank
  chan,          \* per worker: point-to-point messages to the root not yet received
  bq,            \* per worker: broadcasts of the root not yet received
  \* the driver program, the same on every process
  script,        \* the calls already made by some worker and not yet by all
  done,          \* per worker: how many calls of script it has completed
  phase,         \* Uninitialized, Reset (reset, no sync yet) or Ready, at the end of script
  ncall,         \* calls made so far
  issued,        \* divisions the passes requested so far may have made
  \* history of the current call, per worker
  isys,          \* the system its fields were installed from
  npass, nbatch, \* passes and batches executed in the call
  comm,          \* whether it sent or received a message in the call
  mine,          \* its own Work Range of X as it computed it in the last batch
  oldN,          \* the N it held before sync last installed a system
  base,          \* the X it held when its last sync call returned
  calls,         \* the iteration counts of the step calls it made since
  \* the owned buffers of one solver object (solver.cc:12-31, 36-39, 54-58, 70-77)
  proc_id,       \* its rank, line 18
  mem,           \* its pointer fields and the allocated blocks: [ptr, live, next, twice]
  destroyed,     \* the destructor has run
  lcalls         \* calls made on the object so far

partVars == <<buf, mask, ret, ncalls, reshaped>>
offVars == <<oN, oP, oOffset, oDone>>
fieldVars == <<n_proc, min_interval, N, A, B, X, offset, err, out>>
ctlVars == <<pc, cur, iv, jv, rj, chan, bq>>
progVars == <<script, done, phase, ncall, issued>>
histVars == <<isys, npass, nbatch, comm, mine, oldN, base, calls>>
solverVars == <<fieldVars, ctlVars, progVars, histVars>>
bufVars == <<proc_id, mem, destroyed, lcalls>>
vars == <<partVars, offVars, solverVars, bufVars>>

At(s, k) == s[k + 1]
Put(s, k, x) == [s EXCEPT ![k + 1] = x]

\* ================================================================ partition
MaskVals == {-1, 0, 2}

Masks ==
  UNION { { [n |-> n, m |-> m, v |-> v] : v \in [1..(n * m) -> MaskVals] }
          : <<n, m>> \in { s \in (0..MaxCells) \X (0..MaxCells) : s[1] * s[2] <= MaxCells } }

\* arr(i, j) of the unchecked<2> view, line 34
arr(msk, i, j) == At(msk.v, i * msk.m + j)

\* new int[len]: the storage is not initialised; it holds either what the
\* freed buffer held (recycled block) or an arbitrary fill.
NewInts(len, old) ==
  { [k \in 1..len |-> IF k <= Len(old) THEN old[k] ELSE -7],
    [k \in 1..len |-> 1] }

\* the mutant: cnt++ in place of ++cnt
RECURSIVE PartitionLoopPostInc(_, _, _, _, _)
PartitionLoopPostInc(msk, i, j, cnt, b) ==
  IF i >= msk.n THEN b
  ELSE IF j >= msk.m THEN PartitionLoopPostInc(msk, i + 1, 0, cnt, b)
  ELSE IF arr(msk, i, j) > 0
       THEN PartitionLoopPostInc(msk, i, j + 1, cnt + 1, Put(b, i * msk.m + j, cnt))
       ELSE PartitionLoopPostInc(msk, i, j + 1, cnt, Put(b, i * msk.m + j, 0))

\* the mutant: an inactive cell is not written
RECURSIVE PartitionLoopNoElse(_, _, _, _, _)
PartitionLoopNoElse(msk, i, j, cnt, b) ==
  IF i >= msk.n THEN b
  ELSE IF j >= msk.m THEN PartitionLoopNoElse(msk, i + 1, 0, cnt, b)
  ELSE IF arr(msk, i, j) > 0
       THEN PartitionLoopNoElse(msk, i, j + 1, cnt + 1, Put(b, i * msk.m + j, cnt + 1))
       ELSE PartitionLoopNoElse(msk, i, j + 1, cnt, b)

\* lines 40-49: the two nested loops, cnt carried along
RECURSIVE PartitionLoop(_, _, _, _, _)
PartitionLoop(msk, i, j, cnt, b) ==
  IF i >= msk.n THEN b
  ELSE IF j >= msk.m THEN PartitionLoop(msk, i + 1, 0, cnt, b)
  ELSE IF arr(msk, i, j) > 0
       THEN PartitionLoop(msk, i, j + 1, cnt + 1, Put(b, i * msk.m + j, cnt + 1))
       ELSE PartitionLoop(msk, i, j + 1, cnt, Put(b, i * msk.m + j, 0))

\* lines 33-51: free buf, allocate n*m ints, fill, return a copy
partition(msk) ==
  \E fresh \in NewInts(msk.n * msk.m, buf.v) :
    LET filled == PartitionLoop(msk, 0, 0, 0, fresh) IN
      /\ buf' = [live |-> TRUE, v |-> filled]
      /\ ret' = [n |-> msk.n, m |-> msk.m, v |-> filled]
      /\ mask' = msk
      /\ ncalls' = IF ncalls < 2 THEN ncalls + 1 ELSE 2
      /\ reshaped' = (/\ buf.live
                      /\ <<msk.n, msk.m>> # <<mask.n, mask.m>>
                      /\ \E k \in 1..(msk.n * msk.m) : fresh[k] # filled[k])

PartInit ==
  /\ buf = [live |-> FALSE, v |-> <<>>]
  /\ mask = [n |-> 0, m |-> 0, v |-> <<>>]
  /\ ret = [n |-> 0, m |-> 0, v |-> <<>>]
  /\ ncalls = 0
  /\ reshaped = FALSE

Partition ==
  \E msk \in Masks : partition(msk) /\ UNCHANGED <<offVars, solverVars, bufVars>>

\* ============================================================== post_reset
\* the mutant: the remainder N % n_proc is not handed out
RECURSIVE OffsetLoopNoRemainder(_, _, _, _)
OffsetLoopNoRemainder(off, n, np, i) ==
  IF i >= np THEN off
  ELSE OffsetLoopNoRemainder(Put(off, i + 1, At(off, i) + (n \div np)), n, np, i + 1)

\* lines 61-64
RECURSIVE OffsetLoop(_, _, _, _)
OffsetLoop(off, n, np, i) ==
  IF i >= np THEN off
  ELSE LET additional == n % np IN
       OffsetLoop(Put(off, i + 1,
                      At(off, i) + (n \div np) + (IF i < additional THEN 1 ELSE 0)),
                  n, np, i + 1)

\* lines 59-64: offset[0] = 0, then the loop
ComputeOffsets(off, n, np) == OffsetLoop(Put(off, 0, 0), n, np, 0)

\* new int[n_proc + 1] of the constructor (line 20): not initialised
NewOffsets(np) ==
  { [k \in 1..(np + 1) |-> 0], [k \in 1..(np + 1) |-> k - 1] }

OffInit ==
  /\ oN \in 0..MaxCount
  /\ oP \in 1..MaxRanks
  /\ oOffset \in NewOffsets(oP)
  /\ oDone = FALSE

OffIdle ==
  /\ oN = 0
  /\ oP = 1
  /\ oOffset = <<0, 0>>
  /\ oDone = FALSE

PostResetOffsets ==
  /\ ~oDone
  /\ oOffset' = ComputeOffsets(oOffset, oN, oP)
  /\ oDone' = TRUE
  /\ UNCHANGED <<oN, oP, partVars, solverVars, bufVars>>

\* ================================================================== solver
Procs == 0..(n_proc - 1)
Workers == 1..(n_proc - 1)

\* X, B, tmp and err hold floats. A float of the model is the integer
\* value * Unit, Unit a power of two, so that scaling changes no rounding.
\* Sums and differences round to the 24 significant bits of a float, to
\* nearest, ties to even (Round24); multiplying and dividing by 4 are exact
\* as long as the quotient is a multiple of 1/Unit. Round24 and UpdateChannel
\* take the one element of the set of their results, which has their
\* argument evaluated once however deep the expression it comes from. One
\* relaxation pass over
\* a range of n variables divides a value at most n times (each update reads
\* what the updates before it wrote), and the driver below requests no more
\* passes than MaxDepth divisions allow.
Unit == 4 ^ MaxDepth

RECURSIVE Quantum(_)
Quantum(a) == IF a < 2 ^ 24 THEN 1 ELSE 2 * Quantum(a \div 2)

Abs(v) == IF v < 0 THEN -v ELSE v

Round24(v) ==
  LET Rounded(x) ==
        LET a == Abs(x)
            q == Quantum(a)
            lo == (a \div q) * q
            rem == a - lo
            up == IF 2 * rem > q \/ (2 * rem = q /\ (lo \div q) % 2 = 1)
                  THEN lo + q ELSE lo
        IN IF x < 0 THEN -up ELSE up
  IN CHOOSE u \in { Rounded(x) : x \in {v} } : TRUE

fadd(a, b) == Round24(a + b)
fsub(a, b) == Round24(a - b)

\* ------------------------------------------------- the systems reset installs
\* N variables; every neighbour the anchor, or the neighbours i+1, i-1, 0, i;
\* B zero or not; X below 0, inside and above [0, 255] in the three channels
AdjKinds == {"anchor", "mixed"}
Systems == [n : 1..MaxN, ak : AdjKinds, bk : {0, 12}]
NoSys == [n |-> 0, ak |-> "anchor", bk |-> 0]

SysA(s) ==
  [k \in 1..(4 * s.n) |->
     LET i == (k - 1) \div 4
         c == (k - 1) % 4
     IN IF s.ak = "anchor" THEN 0
        ELSE At(<<(i + 1) % s.n, (i + s.n - 1) % s.n, 0, i>>, c)]

SysB(s) ==
  [k \in 1..(3 * s.n) |->
     LET i == (k - 1) \div 3
         c == (k - 1) % 3
     IN Unit * s.bk * (c + 1 - i)]

SysX(s) ==
  [k \in 1..(3 * s.n) |->
     LET i == (k - 1) \div 3
         c == (k - 1) % 3
     IN Unit * (At(<<-8, 100, 300>>, c) + i)]

\* --------------------------------------------------------- update_equation
\* the mutant: the result is stored in the first neighbour's slot
UpdateChannelScatter(Xs, As, Bs, i, c) ==
  LET off3 == i * 3
      off4 == i * 4
      id0 == At(As, off4 + 0) * 3
      id1 == At(As, off4 + 1) * 3
      id2 == At(As, off4 + 2) * 3
      id3 == At(As, off4 + 3) * 3
      Assigned(Xc) ==
        Put(Xc, id0 + c,
            fadd(fadd(fadd(fadd(At(Bs, off3 + c), At(Xc, id0 + c)),
                           At(Xc, id1 + c)), At(Xc, id2 + c)), At(Xc, id3 + c)) \div 4)
  IN CHOOSE u \in { Assigned(Xc) : Xc \in {Xs} } : TRUE

\* the mutant: the last neighbour is left out of the sum
UpdateChannelThree(Xs, As, Bs, i, c) ==
  LET off3 == i * 3
      off4 == i * 4
      id0 == At(As, off4 + 0) * 3
      id1 == At(As, off4 + 1) * 3
      id2 == At(As, off4 + 2) * 3
      Assigned(Xc) ==
        Put(Xc, off3 + c,
            fadd(fadd(fadd(At(Bs, off3 + c), At(Xc, id0 + c)),
                      At(Xc, id1 + c)), At(Xc, id2 + c)) \div 4)
  IN CHOOSE u \in { Assigned(Xc) : Xc \in {Xs} } : TRUE

\* lines 92-97, one of the three assignments: channel c of variable i
UpdateChannel(Xs, As, Bs, i, c) ==
  LET off3 == i * 3
      off4 == i * 4
      id0 == At(As, off4 + 0) * 3
      id1 == At(As, off4 + 1) * 3
      id2 == At(As, off4 + 2) * 3
      id3 == At(As, off4 + 3) * 3
      Assigned(Xc) ==
        Put(Xc, off3 + c,
            fadd(fadd(fadd(fadd(At(Bs, off3 + c), At(Xc, id0 + c)),
                           At(Xc, id1 + c)), At(Xc, id2 + c)), At(Xc, id3 + c)) \div 4)
  IN CHOOSE u \in { Assigned(Xc) : Xc \in {Xs} } : TRUE

\* lines 85-98: the three assignments, in order, each reading the current X
update_equation(Xs, As, Bs, i) ==
  UpdateChannel(UpdateChannel(UpdateChannel(Xs, As, Bs, i, 0), As, Bs, i, 1), As, Bs, i, 2)

\* lines 131-133: one pass, k ascending, each update written in place
RECURSIVE RelaxRange(_, _, _, _, _)
RelaxRange(Xs, As, Bs, k, hi) ==
  IF k >= hi THEN Xs
  ELSE RelaxRange(update_equation(Xs, As, Bs, k), As, Bs, k + 1, hi)

\* -------------------------------------------------------------- calc_error
\* lines 101-117: tmp[3i + c]
Residual(Xs, As, Bs, i, c) ==
  LET off3 == i * 3
      off4 == i * 4
      id0 == At(As, off4 + 0) * 3
      id1 == At(As, off4 + 1) * 3
      id2 == At(As, off4 + 2) * 3
      id3 == At(As, off4 + 3) * 3
      nb == fadd(fadd(fadd(At(Xs, id0 + c), At(Xs, id1 + c)), At(Xs, id2 + c)),
                 At(Xs, id3 + c))
  IN Abs(fsub(fsub(Round24(4 * At(Xs, off3 + c)), nb), At(Bs, off3 + c)))

\* lines 118-124: err zeroed, then the residuals of ids 1 .. N-1 added up
RECURSIVE ErrSum(_, _, _, _, _, _, _)
ErrSum(acc, Xs, As, Bs, n, i, c) ==
  IF i >= n THEN acc
  ELSE ErrSum(fadd(acc, Residual(Xs, As, Bs, i, c)), Xs, As, Bs, n, i + 1, c)

\* the mutant: the loops start at i = 0
calc_errorWithAnchor(Xs, As, Bs, n) ==
  [c \in 1..3 |-> ErrSum(0, Xs, As, Bs, n, 0, c - 1)]

calc_error(Xs, As, Bs, n) ==
  [c \in 1..3 |-> ErrSum(0, Xs, As, Bs, n, 1, c - 1)]

\* ------------------------------------------------------------ output image
\* the mutant: no upper clamp, the conversion to unsigned char wraps
ClampNoUpper(x) == IF x < 0 THEN 0 ELSE (x \div Unit) % 256

\* line 150: X[i] < 0 ? 0 : X[i] > 255 ? 255 : X[i], converted to unsigned char
Clamp(x) == IF x < 0 THEN 0 ELSE IF x > 255 * Unit THEN 255 ELSE x \div Unit

\* buf2 is never written on a worker other than the root: its bytes are arbitrary
UninitBytes == { <<0, 0, 0>>, <<255, 7, 0>> }

\* ------------------------------------------------------ the driver program
\* Every process runs the same program. script holds its calls from the
\* first one some worker has not completed yet; a worker that has completed
\* them all makes the next call, which the others then make too. reset is
\* the root's alone: the other workers pass over it.
NoCall == [op |-> "none", it |-> 0, ready |-> FALSE, sys |-> NoSys]
ResetEntry(s) == [op |-> "reset", it |-> 0, ready |-> FALSE, sys |-> s]
SyncEntry == [op |-> "sync", it |-> 0, ready |-> phase # "Uninitialized", sys |-> NoSys]
StepEntry(n) == [op |-> "step", it |-> n, ready |-> phase = "Ready", sys |-> NoSys]

\* relaxation passes a step(n) call runs, each worth MaxN divisions
Requested(n) ==
  IF min_interval >= 1
  THEN ((n + min_interval - 1) \div min_interval) * min_interval
  ELSE 0

NewEntries ==
  { ResetEntry(s) : s \in Systems } \cup { SyncEntry }
    \cup { StepEntry(n) : n \in { q \in 1..MaxIter : issued + Requested(q) * MaxN <= MaxDepth } }

NextEntries(r) ==
  IF done[r] < Len(script) THEN { script[done[r] + 1] }
  ELSE IF Len(script) < MaxPending /\ ncall < MaxCalls THEN NewEntries
  ELSE {}

ScriptWith(r, e) == IF done[r] < Len(script) THEN script ELSE Append(script, e)

Made(r, e) ==
  IF done[r] < Len(script) THEN UNCHANGED <<phase, ncall, issued>>
  ELSE /\ phase' = CASE e.op = "reset" -> "Reset"
                     [] e.op = "sync" /\ phase = "Reset" -> "Ready"
                     [] OTHER -> phase
       /\ ncall' = ncall + 1
       /\ issued' = issued + (IF e.op = "step" THEN Requested(e.it) * MaxN ELSE 0)

\* worker r starts call e and stays in it
Start(r, e) ==
  /\ Made(r, e)
  /\ script' = ScriptWith(r, e)
  /\ cur' = [cur EXCEPT ![r] = e]
  /\ UNCHANGED done

\* worker r has completed one more call of scr
Complete(r, scr) ==
  LET d == [done EXCEPT ![r] = @ + 1] IN
    IF \A w \in Procs : d[w] >= 1
    THEN /\ script' = Tail(scr)
         /\ done' = [w \in Procs |-> d[w] - 1]
    ELSE /\ script' = scr
         /\ done' = d

\* ------------------------------------------------------------------- reset
\* EquSolver::reset on the root: N, A, B, X from the caller, then post_reset
Reset ==
  \E e \in NextEntries(0) :
    /\ pc[0] = "idle"
    /\ e.op = "reset"
    /\ N' = [N EXCEPT ![0] = e.sys.n]
    /\ A' = [A EXCEPT ![0] = SysA(e.sys)]
    /\ B' = [B EXCEPT ![0] = SysB(e.sys)]
    /\ X' = [X EXCEPT ![0] = SysX(e.sys)]
    /\ offset' = [offset EXCEPT ![0] = ComputeOffsets(@, e.sys.n, n_proc)]
    /\ isys' = [isys EXCEPT ![0] = e.sys]
    /\ cur' = [cur EXCEPT ![0] = e]
    /\ Made(0, e)
    /\ Complete(0, ScriptWith(0, e))
    /\ UNCHANGED <<n_proc, min_interval, err, out, pc, iv, jv, rj, chan, bq,
                   npass, nbatch, comm, mine, oldN, base, calls>>

\* a worker other than the root does not call reset: it passes over it
SkipReset(r) ==
  \E e \in NextEntries(r) :
    /\ r # 0
    /\ pc[r] = "idle"
    /\ e.op = "reset"
    /\ cur' = [cur EXCEPT ![r] = e]
    /\ Made(r, e)
    /\ Complete(r, ScriptWith(r, e))
    /\ UNCHANGED <<fieldVars, pc, iv, jv, rj, chan, bq, histVars>>

\* -------------------------------------------------------------------- sync
SyncPayload ==
  [kind |-> "sync", n |-> N[0], a |-> A[0], b |-> B[0], x |-> X[0],
   off |-> offset[0], sys |-> isys[0]]
XPayload == [kind |-> "X", n |-> 0, a |-> <<>>, b |-> <<>>, x |-> X[0],
             off |-> <<>>, sys |-> NoSys]

\* the mutant: the offsets are not broadcast
syncInstallNoOffset(r, p) ==
  /\ N' = [N EXCEPT ![r] = p.n]
  /\ A' = [A EXCEPT ![r] = p.a]
  /\ B' = [B EXCEPT ![r] = p.b]
  /\ X' = [X EXCEPT ![r] = p.x]
  /\ offset' = offset

\* lines 68-82 on a worker other than the root: N received, the buffers
\* allocated anew for it, then A, B, X and offset received
syncInstall(r, p) ==
  /\ N' = [N EXCEPT ![r] = p.n]
  /\ A' = [A EXCEPT ![r] = p.a]
  /\ B' = [B EXCEPT ![r] = p.b]
  /\ X' = [X EXCEPT ![r] = p.x]
  /\ offset' = [offset EXCEPT ![r] = p.off]

\* lines 68-82 on the root: the five broadcasts
SyncRoot ==
  \E e \in NextEntries(0) :
    /\ pc[0] = "idle"
    /\ e.op = "sync"
    /\ bq' = [w \in Procs |-> IF w = 0 THEN bq[w] ELSE Append(bq[w], SyncPayload)]
    /\ cur' = [cur EXCEPT ![0] = e]
    /\ base' = [base EXCEPT ![0] = X[0]]
    /\ calls' = [calls EXCEPT ![0] = <<>>]
    /\ Made(0, e)
    /\ Complete(0, ScriptWith(0, e))
    /\ UNCHANGED <<fieldVars, pc, iv, jv, rj, chan, isys, npass, nbatch, comm, mine, oldN>>

SyncStart(r) ==
  \E e \in NextEntries(r) :
    /\ r # 0
    /\ pc[r] = "idle"
    /\ e.op = "sync"
    /\ pc' = [pc EXCEPT ![r] = "sync"]
    /\ Start(r, e)
    /\ UNCHANGED <<fieldVars, iv, jv, rj, chan, bq, histVars>>

SyncRecv(r) ==
  /\ r # 0
  /\ pc[r] = "sync"
  /\ bq[r] # <<>>
  /\ Head(bq[r]).kind = "sync"
  /\ syncInstall(r, Head(bq[r]))
  /\ isys' = [isys EXCEPT ![r] = Head(bq[r]).sys]
  /\ oldN' = [oldN EXCEPT ![r] = N[r]]
  /\ base' = [base EXCEPT ![r] = Head(bq[r]).x]
  /\ calls' = [calls EXCEPT ![r] = <<>>]
  /\ bq' = [bq EXCEPT ![r] = Tail(@)]
  /\ pc' = [pc EXCEPT ![r] = "idle"]
  /\ Complete(r, script)
  /\ UNCHANGED <<n_proc, min_interval, err, out, cur, iv, jv, rj, chan,
                 phase, ncall, issued, npass, nbatch, comm, mine>>

\* -------------------------------------------------------------------- step
\* the mutant: the k loop starts at 0 on every worker
LoZero(r) == 0

Lo(r) == At(offset[r], r)
Hi(r) == At(offset[r], r + 1)
Slice(Xs, lo, hi) == SubSeq(Xs, lo * 3 + 1, hi * 3)

\* the mutant: a batch runs only if all its passes were asked for
LoopTestWhole(i, it) ==
  IF i + min_interval <= it THEN (IF 0 < min_interval THEN "pass" ELSE "comm") ELSE "report"

\* the mutant: the loop test is i <= iteration
LoopTestInclusive(i, it) ==
  IF i <= it THEN (IF 0 < min_interval THEN "pass" ELSE "comm") ELSE "report"

\* line 129: the test i < iteration, and where the batch starts (line 130)
LoopTest(i, it) ==
  IF i < it THEN (IF 0 < min_interval THEN "pass" ELSE "comm") ELSE "report"

\* line 129: i += min_interval. Below 0 the counter only feeds the test
\* i < iteration, which stays true: every negative value is kept as -1.
NextI(i) == IF i + min_interval < 0 THEN -1 ELSE i + min_interval

\* batches are counted up to MaxIter + 1
Bump(n) == IF n <= MaxIter THEN n + 1 ELSE n

\* line 129, on entry
StepStart(r) ==
  \E e \in NextEntries(r) :
    /\ pc[r] = "idle"
    /\ e.op = "step"
    /\ pc' = [pc EXCEPT ![r] = LoopTest(0, e.it)]
    /\ iv' = [iv EXCEPT ![r] = 0]
    /\ jv' = [jv EXCEPT ![r] = 0]
    /\ rj' = [rj EXCEPT ![r] = 1]
    /\ npass' = [npass EXCEPT ![r] = 0]
    /\ nbatch' = [nbatch EXCEPT ![r] = 0]
    /\ comm' = [comm EXCEPT ![r] = FALSE]
    /\ calls' = [calls EXCEPT ![r] = Append(@, e.it)]
    /\ Start(r, e)
    /\ UNCHANGED <<fieldVars, chan, bq, isys, mine, oldN, base>>

\* lines 130-134: one pass of the j loop over the worker's own Work Range.
\* A range outside [0, N) makes update_equation read and write outside the
\* arrays: the worker faults.
RelaxPass(r) ==
  /\ pc[r] = "pass"
  /\ IF Lo(r) >= Hi(r) \/ (0 <= Lo(r) /\ Hi(r) <= N[r])
     THEN LET Xn == RelaxRange(X[r], A[r], B[r], Lo(r), Hi(r))
              last == jv[r] + 1 >= min_interval
          IN /\ X' = [X EXCEPT ![r] = Xn]
             /\ jv' = [jv EXCEPT ![r] = @ + 1]
             /\ npass' = [npass EXCEPT ![r] = @ + 1]
             /\ pc' = [pc EXCEPT ![r] = IF last THEN "comm" ELSE "pass"]
             /\ mine' = [mine EXCEPT ![r] = IF last THEN Slice(Xn, Lo(r), Hi(r)) ELSE @]
     ELSE /\ pc' = [pc EXCEPT ![r] = "failed"]
          /\ UNCHANGED <<X, jv, npass, mine>>
  /\ UNCHANGED <<n_proc, min_interval, N, A, B, offset, err, out, cur, iv, rj,
                 chan, bq, progVars, isys, nbatch, comm, oldN, base, calls>>

\* lines 141-143: MPI_Send of the worker's own range. The call returns once
\* the message is buffered (SendEager) or once the root has received it
\* (SendRendezvous, SendReturn); the library chooses.
SendOk(r) ==
  /\ Hi(r) >= Lo(r)
  /\ Hi(r) = Lo(r) \/ (0 <= Lo(r) /\ Hi(r) * 3 <= Len(X[r]))

\* the mutant: a worker with an empty Work Range does not send
SendSkipEmpty(r, next) ==
  /\ r # 0
  /\ pc[r] = "comm"
  /\ IF SendOk(r)
     THEN /\ chan' = [chan EXCEPT ![r] = IF Hi(r) = Lo(r) THEN @
                                         ELSE Append(@, Slice(X[r], Lo(r), Hi(r)))]
          /\ pc' = [pc EXCEPT ![r] = next]
          /\ comm' = [comm EXCEPT ![r] = TRUE]
     ELSE /\ pc' = [pc EXCEPT ![r] = "failed"]
          /\ UNCHANGED <<chan, comm>>
  /\ UNCHANGED <<fieldVars, cur, iv, jv, rj, bq, progVars, isys, npass, nbatch, mine, oldN, base, calls>>

Send(r, next) ==
  /\ r # 0
  /\ pc[r] = "comm"
  /\ IF SendOk(r)
     THEN /\ chan' = [chan EXCEPT ![r] = Append(@, Slice(X[r], Lo(r), Hi(r)))]
          /\ pc' = [pc EXCEPT ![r] = next]
          /\ comm' = [comm EXCEPT ![r] = TRUE]
     ELSE /\ pc' = [pc EXCEPT ![r] = "failed"]
          /\ UNCHANGED <<chan, comm>>
  /\ UNCHANGED <<fieldVars, cur, iv, jv, rj, bq, progVars, isys, npass, nbatch, mine, oldN, base, calls>>

SendEager(r) == Send(r, "bcast")
SendRendezvous(r) == Send(r, "sendwait")

SendReturn(r) ==
  /\ pc[r] = "sendwait"
  /\ chan[r] = <<>>
  /\ pc' = [pc EXCEPT ![r] = "bcast"]
  /\ UNCHANGED <<fieldVars, cur, iv, jv, rj, chan, bq, progVars, histVars>>

\* the mutant: the receive buffer starts at &X[offset[j]]
RecvIndexNoTriple(j) == At(offset[0], j)

\* line 137: the receive buffer starts at &X[offset[j] * 3]
RecvIndex(j) == At(offset[0], j) * 3

\* the mutant: the receive loop stops at rank 1, before the first receive
RecvLoopTestOne(j) == j < 1

\* line 136: the test j < n_proc of the receive loop
RecvLoopTest(j) == j < n_proc

\* lines 136-139: the root's MPI_Recv from rank rj. A message longer than
\* the count, a negative count or a buffer outside X ends the root.
RootRecv ==
  LET j == rj[0]
      msg == Head(chan[j])
      cnt == (At(offset[0], j + 1) - At(offset[0], j)) * 3
      at == RecvIndex(j)
      ok == /\ cnt >= 0
            /\ Len(msg) <= cnt
            /\ Len(msg) = 0 \/ (0 <= at /\ at + Len(msg) <= Len(X[0]))
  IN /\ pc[0] = "comm"
     /\ RecvLoopTest(j)
     /\ chan[j] # <<>>
     /\ chan' = [chan EXCEPT ![j] = Tail(@)]
     /\ IF ok
        THEN /\ X' = [X EXCEPT ![0] =
                        [k \in 1..Len(@) |->
                           IF at < k /\ k <= at + Len(msg) THEN msg[k - at] ELSE @[k]]]
             /\ rj' = [rj EXCEPT ![0] = j + 1]
             /\ comm' = [comm EXCEPT ![0] = TRUE]
             /\ pc' = pc
        ELSE /\ pc' = [pc EXCEPT ![0] = "failed"]
             /\ UNCHANGED <<X, rj, comm>>
     /\ UNCHANGED <<n_proc, min_interval, N, A, B, offset, err, out, cur, iv, jv,
                    bq, progVars, isys, npass, nbatch, mine, oldN, base, calls>>

\* line 145 on the root, then lines 129-130 for the next batch
RootBcast ==
  /\ pc[0] = "comm"
  /\ ~RecvLoopTest(rj[0])
  /\ bq' = [w \in Procs |-> IF w = 0 THEN bq[w] ELSE Append(bq[w], XPayload)]
  /\ comm' = [comm EXCEPT ![0] = @ \/ n_proc > 1]
  /\ nbatch' = [nbatch EXCEPT ![0] = Bump(@)]
  /\ iv' = [iv EXCEPT ![0] = NextI(@)]
  /\ jv' = [jv EXCEPT ![0] = 0]
  /\ rj' = [rj EXCEPT ![0] = 1]
  /\ pc' = [pc EXCEPT ![0] = LoopTest(NextI(iv[0]), cur[0].it)]
  /\ UNCHANGED <<fieldVars, cur, chan, progVars, isys, npass, mine, oldN, base, calls>>

\* the mutant: the broadcast is received into B
BcastRecvIntoB(r) ==
  LET x == Head(bq[r]).x IN
    /\ r # 0
    /\ pc[r] = "bcast"
    /\ bq[r] # <<>>
    /\ Head(bq[r]).kind = "X"
    /\ bq' = [bq EXCEPT ![r] = Tail(@)]
    /\ IF Len(x) <= N[r] * 3
       THEN /\ B' = [B EXCEPT ![r] =
                       [k \in 1..Len(@) |-> IF k <= Len(x) THEN x[k] ELSE @[k]]]
            /\ nbatch' = [nbatch EXCEPT ![r] = Bump(@)]
            /\ iv' = [iv EXCEPT ![r] = NextI(@)]
            /\ jv' = [jv EXCEPT ![r] = 0]
            /\ pc' = [pc EXCEPT ![r] = LoopTest(NextI(iv[r]), cur[r].it)]
       ELSE /\ pc' = [pc EXCEPT ![r] = "failed"]
            /\ UNCHANGED <<B, nbatch, iv, jv>>
    /\ UNCHANGED <<n_proc, min_interval, N, A, X, offset, err, out, cur, rj,
                   chan, progVars, isys, npass, comm, mine, oldN, base, calls>>

\* line 145 on another worker, then lines 129-130 for the next batch. More
\* floats than the N * 3 asked for end the worker; fewer fill the front of X.
BcastRecv(r) ==
  LET x == Head(bq[r]).x IN
    /\ r # 0
    /\ pc[r] = "bcast"
    /\ bq[r] # <<>>
    /\ Head(bq[r]).kind = "X"
    /\ bq' = [bq EXCEPT ![r] = Tail(@)]
    /\ IF Len(x) <= N[r] * 3
       THEN /\ X' = [X EXCEPT ![r] =
                       [k \in 1..Len(@) |-> IF k <= Len(x) THEN x[k] ELSE @[k]]]
            /\ nbatch' = [nbatch EXCEPT ![r] = Bump(@)]
            /\ iv' = [iv EXCEPT ![r] = NextI(@)]
            /\ jv' = [jv EXCEPT ![r] = 0]
            /\ pc' = [pc EXCEPT ![r] = LoopTest(NextI(iv[r]), cur[r].it)]
       ELSE /\ pc' = [pc EXCEPT ![r] = "failed"]
            /\ UNCHANGED <<X, nbatch, iv, jv>>
    /\ UNCHANGED <<n_proc, min_interval, N, A, B, offset, err, out, cur, rj,
                   chan, progVars, isys, npass, comm, mine, oldN, base, calls>>

\* lines 147-155: the root computes the error vector and the clamped image
\* and returns them; another worker returns one row of its buf2 and err
Return(r) ==
  /\ pc[r] = "report"
  /\ IF r = 0
     THEN LET e == calc_error(X[0], A[0], B[0], N[0]) IN
            /\ err' = [err EXCEPT ![0] = e]
            /\ out' = [out EXCEPT ![0] =
                         [rows |-> N[0],
                          img |-> [k \in 1..(N[0] * 3) |-> Clamp(X[0][k])],
                          err |-> e]]
     ELSE /\ err' = err
          /\ \E g \in UninitBytes :
               out' = [out EXCEPT ![r] = [rows |-> 1, img |-> g, err |-> err[r]]]
  /\ pc' = [pc EXCEPT ![r] = "idle"]
  /\ Complete(r, script)
  /\ UNCHANGED <<n_proc, min_interval, N, A, B, X, offset, cur, iv, jv, rj,
                 chan, bq, phase, ncall, issued, histVars>>

\* ------------------------------------------------------------ construction
Intervals == (-1)..MaxInterval

\* lines 12-21 on every process: the base class leaves N = 0 and A, B, X
\* unallocated; offset is allocated and not initialised
SolverInit ==
  /\ n_proc \in 1..MaxProc
  /\ min_interval \in Intervals
  /\ N = [r \in Procs |-> 0]
  /\ A = [r \in Procs |-> <<>>]
  /\ B = [r \in Procs |-> <<>>]
  /\ X = [r \in Procs |-> <<>>]
  /\ offset \in [Procs -> NewOffsets(n_proc)]
  /\ err = [r \in Procs |-> <<0, 0, 0>>]
  /\ out = [r \in Procs |-> [rows |-> 0, img |-> <<>>, err |-> <<0, 0, 0>>]]
  /\ pc = [r \in Procs |-> "idle"]
  /\ cur = [r \in Procs |-> NoCall]
  /\ iv = [r \in Procs |-> 0]
  /\ jv = [r \in Procs |-> 0]
  /\ rj = [r \in Procs |-> 1]
  /\ chan = [r \in Procs |-> <<>>]
  /\ bq = [r \in Procs |-> <<>>]
  /\ script = <<>>
  /\ done = [r \in Procs |-> 0]
  /\ phase = "Uninitialized"
  /\ ncall = 0
  /\ issued = 0
  /\ isys = [r \in Procs |-> NoSys]
  /\ npass = [r \in Procs |-> 0]
  /\ nbatch = [r \in Procs |-> 0]
  /\ comm = [r \in Procs |-> FALSE]
  /\ mine = [r \in Procs |-> <<>>]
  /\ oldN = [r \in Procs |-> 0]
  /\ base = [r \in Procs |-> <<>>]
  /\ calls = [r \in Procs |-> <<>>]

SolverIdle ==
  /\ n_proc = 1
  /\ min_interval = 1
  /\ N = [r \in Procs |-> 0]
  /\ A = [r \in Procs |-> <<>>]
  /\ B = [r \in Procs |-> <<>>]
  /\ X = [r \in Procs |-> <<>>]
  /\ offset = [r \in Procs |-> <<0, 0>>]
  /\ err = [r \in Procs |-> <<0, 0, 0>>]
  /\ out = [r \in Procs |-> [rows |-> 0, img |-> <<>>, err |-> <<0, 0, 0>>]]
  /\ pc = [r \in Procs |-> "idle"]
  /\ cur = [r \in Procs |-> NoCall]
  /\ iv = [r \in Procs |-> 0]
  /\ jv = [r \in Procs |-> 0]
  /\ rj = [r \in Procs |-> 1]
  /\ chan = [r \in Procs |-> <<>>]
  /\ bq = [r \in Procs |-> <<>>]
  /\ script = <<>>
  /\ done = [r \in Procs |-> 0]
  /\ phase = "Uninitialized"
  /\ ncall = 0
  /\ issued = 0
  /\ isys = [r \in Procs |-> NoSys]
  /\ npass = [r \in Procs |-> 0]
  /\ nbatch = [r \in Procs |-> 0]
  /\ comm = [r \in Procs |-> FALSE]
  /\ mine = [r \in Procs |-> <<>>]
  /\ oldN = [r \in Procs |-> 0]
  /\ base = [r \in Procs |-> <<>>]
  /\ calls = [r \in Procs |-> <<>>]

\* ============================================================ owned buffers
\* The pointer fields of one solver object. A pointer is 0 (NULL) or the
\* number of the block it was assigned from new[]; live holds the blocks
\* allocated and not deleted; twice records a delete[] of a block that is
\* not live.
Fields == {"A", "B", "X", "tmp", "buf", "buf2", "offset"}

\* delete[] p: nothing for NULL
Delete(h, f) ==
  IF h.ptr[f] = 0 THEN h
  ELSE [h EXCEPT !.live = @ \ {h.ptr[f]},
                 !.twice = @ \/ h.ptr[f] \notin h.live]

\* p = new T[n]
NewBuf(h, f) ==
  [h EXCEPT !.ptr[f] = h.next, !.live = @ \cup {h.next}, !.next = @ + 1]

\* lines 12-21: buf, buf2, tmp NULL, the base class pointers NULL, offset allocated
Constructed ==
  NewBuf([ptr |-> [f \in Fields |-> 0], live |-> {}, next |-> 1, twice |-> FALSE],
         "offset")

\* lines 36-39
PartitionBuffers(h) ==
  NewBuf(IF h.ptr["buf"] # 0 THEN Delete(h, "buf") ELSE h, "buf")

\* EquSolver::reset: A, B, X released and allocated for the new N
BaseReset(h) ==
  NewBuf(NewBuf(NewBuf(Delete(Delete(Delete(h, "A"), "B"), "X"), "A"), "B"), "X")

\* lines 54-58: "delete[] tmp, buf2" is a comma expression, it deletes tmp
PostResetBuffers(h) ==
  NewBuf(NewBuf(IF h.ptr["tmp"] # 0 THEN Delete(h, "tmp") ELSE h, "tmp"), "buf2")

\* lines 70-77, proc_id > 0: "delete[] A, B, X, tmp" deletes A
SyncBuffers(h) ==
  NewBuf(NewBuf(NewBuf(NewBuf(NewBuf(
    IF h.ptr["A"] # 0 THEN Delete(h, "A") ELSE h, "A"), "B"), "X"), "tmp"), "buf2")

\* EquSolver::~EquSolver: A, B, X released
BaseDestructor(h) == Delete(Delete(Delete(h, "A"), "B"), "X")

\* lines 23-31: "delete[] buf, buf2" deletes buf; then the base class
Destructor(h) ==
  LET h1 == IF h.ptr["buf"] # 0 THEN Delete(h, "buf") ELSE h
      h2 == IF h1.ptr["tmp"] # 0 THEN Delete(h1, "tmp") ELSE h1
  IN BaseDestructor(Delete(h2, "offset"))

BufInit ==
  /\ proc_id \in {0, 1}
  /\ mem = Constructed
  /\ destroyed = FALSE
  /\ lcalls = 0

BufIdle ==
  /\ proc_id = 0
  /\ mem = Constructed
  /\ destroyed = FALSE
  /\ lcalls = 0

\* a call on the object, while it lives
Call(h) ==
  /\ ~destroyed
  /\ lcalls < MaxLife
  /\ mem' = h
  /\ lcalls' = lcalls + 1
  /\ UNCHANGED <<proc_id, destroyed, partVars, offVars, solverVars>>

BufPartition == ~destroyed /\ Call(PartitionBuffers(mem))
BufReset == proc_id = 0 /\ Call(PostResetBuffers(BaseReset(mem)))
BufSyncRoot == proc_id = 0 /\ Call(mem)
BufSync == proc_id > 0 /\ Call(SyncBuffers(mem))

BufDestroy ==
  /\ ~destroyed
  /\ mem' = Destructor(mem)
  /\ destroyed' = TRUE
  /\ UNCHANGED <<proc_id, lcalls, partVars, offVars, solverVars>>

\* ---------------------------------------------------------- specifications
InitPartition == PartInit /\ OffIdle /\ SolverIdle /\ BufIdle
NextPartition == Partition
SpecPartition == InitPartition /\ [][NextPartition]_vars

InitOffsets == PartInit /\ OffInit /\ SolverIdle /\ BufIdle
NextOffsets == PostResetOffsets
SpecOffsets == InitOffsets /\ [][NextOffsets]_vars

InitBuffers == PartInit /\ OffIdle /\ SolverIdle /\ BufInit
NextBuffers == BufPartition \/ BufReset \/ BufSyncRoot \/ BufSync \/ BufDestroy
SpecBuffers == InitBuffers /\ [][NextBuffers]_vars

Init == PartInit /\ OffIdle /\ SolverInit /\ BufIdle
Next ==
  \/ /\ \/ Reset
        \/ SyncRoot
        \/ RootRecv
        \/ RootBcast
        \/ \E r \in Procs :
             \/ SkipReset(r)
             \/ SyncStart(r)
             \/ SyncRecv(r)
             \/ StepStart(r)
             \/ RelaxPass(r)
             \/ SendEager(r)
             \/ SendRendezvous(r)
             \/ SendReturn(r)
             \/ BcastRecv(r)
             \/ Return(r)
     /\ UNCHANGED <<partVars, offVars, bufVars>>
Spec == Init /\ [][Next]_vars

\* Each worker is a process of its own that keeps running: inside a call it
\* takes the next step of the call whenever that step is possible, and it
\* makes a call of the program that another worker has made already.
WorkerNext(r) ==
  /\ r \in Procs
  /\ pc[r] # "idle" \/ done[r] < Len(script)
  /\ \/ r = 0 /\ (Reset \/ SyncRoot \/ RootRecv \/ RootBcast)
     \/ SkipReset(r)
     \/ SyncStart(r)
     \/ SyncRecv(r)
     \/ StepStart(r)
     \/ RelaxPass(r)
     \/ SendEager(r)
     \/ SendRendezvous(r)
     \/ SendReturn(r)
     \/ BcastRecv(r)
     \/ Return(r)
  /\ UNCHANGED <<partVars, offVars, bufVars>>

Fairness == \A r \in 0..(MaxProc - 1) : WF_vars(WorkerNext(r))
\* the solvers constructed with a batch interval of at least 1
InitLive == Init /\ min_interval >= 1
SpecLive == InitLive /\ [][Next]_vars /\ Fairness

\* ================================================================== claims
\* C2: for every N >= 0 and P >= 1 the offsets computed by post_reset start
\* at 0, end at N, every range has N/P or N/P + 1 ids, and exactly the ranks
\* 0 .. (N mod P) - 1 have the larger size, so the ranges are pairwise
\* disjoint and cover [0, N) exactly.
C2_WorkRangeCoverage ==
  oDone =>
    /\ At(oOffset, 0) = 0
    /\ At(oOffset, oP) = oN
    /\ \A r \in 0..(oP - 1) :
         At(oOffset, r + 1) - At(oOffset, r) =
           (oN \div oP) + (IF r < oN % oP THEN 1 ELSE 0)
    /\ Cardinality({ r \in 0..(oP - 1) :
                       At(oOffset, r + 1) - At(oOffset, r) = (oN \div oP) + 1 })
         = oN % oP
    /\ \A id \in 0..(oN - 1) :
         Cardinality({ r \in 0..(oP - 1) :
                         At(oOffset, r) <= id /\ id < At(oOffset, r + 1) }) = 1

C2_Witness ==
  /\ oDone
  /\ oN = 7
  /\ oP = 3
  /\ oOffset = <<0, 3, 5, 7>>

\* ------------------------------------------------------- claims on the solver
\* the call worker r is in, or the last it completed, as an index into script
CallIx(r) == done[r] + (IF pc[r] = "idle" THEN 0 ELSE 1)

\* worker r is in a step call made in state Ready, or has returned from it
InReadyStep(r) == cur[r].op = "step" /\ cur[r].ready /\ pc[r] # "failed"

\* C1 (as claimed): after reset + sync, whatever step calls follow, every
\* worker's 3 channel values of variable id 0 are the ones reset installed.
C1_AnchorInvariance ==
  \A r \in Procs :
    (InReadyStep(r) /\ N[r] >= 1) => SubSeq(X[r], 1, 3) = SubSeq(SysX(isys[r]), 1, 3)

\* C3: with min_interval >= 1 a call step(iterations), iterations >= 1, runs
\* on every worker exactly ceil(iterations / min_interval) batches of exactly
\* min_interval passes each, one reconciliation after each batch.
C3_IterationRounding ==
  \A r \in Procs :
    (min_interval >= 1 /\ cur[r].op = "step") =>
      /\ pc[r] = "pass" => /\ jv[r] < min_interval
                           /\ npass[r] = nbatch[r] * min_interval + jv[r]
                           /\ nbatch[r] * min_interval < cur[r].it
      /\ pc[r] \in {"comm", "sendwait", "bcast"} =>
           npass[r] = (nbatch[r] + 1) * min_interval
      /\ pc[r] \in {"report", "idle"} =>
           /\ npass[r] = nbatch[r] * min_interval
           /\ nbatch[r] * min_interval >= cur[r].it
           /\ (nbatch[r] - 1) * min_interval < cur[r].it

C3_Witness ==
  /\ n_proc = 2
  /\ min_interval = 2
  /\ pc[1] = "idle"
  /\ cur[1].op = "step"
  /\ cur[1].ready
  /\ cur[1].it = 3
  /\ npass[1] = 4
  /\ nbatch[1] = 2
  /\ N[1] = 2

\* C5: the image step returns on the root has N x 3 elements, element i is
\* X[i] clamped to [0, 255] (0 below 0, 255 above 255, else X[i] truncated),
\* and producing it leaves X unchanged.
C5_OutputClamping ==
  [][(pc[0] = "report" /\ pc'[0] = "idle") =>
       /\ X' = X
       /\ out'[0].rows = N[0]
       /\ Len(out'[0].img) = N[0] * 3
       /\ \A k \in 1..(N[0] * 3) :
            /\ out'[0].img[k] \in 0..255
            /\ X[0][k] < 0 => out'[0].img[k] = 0
            /\ X[0][k] > 255 * Unit => out'[0].img[k] = 255
            /\ (0 <= X[0][k] /\ X[0][k] <= 255 * Unit) =>
                 /\ out'[0].img[k] * Unit <= X[0][k]
                 /\ X[0][k] < (out'[0].img[k] + 1) * Unit]_vars

C5_Witness ==
  /\ pc[0] = "idle"
  /\ cur[0].op = "step"
  /\ out[0].rows = 2
  /\ \E k \in 1..Len(X[0]) : X[0][k] < 0 /\ out[0].img[k] = 0
  /\ \E k \in 1..Len(X[0]) : X[0][k] > 255 * Unit /\ out[0].img[k] = 255
  /\ \E k \in 1..Len(X[0]) :
       /\ 0 < X[0][k] /\ X[0][k] < 255 * Unit
       /\ X[0][k] % Unit # 0
       /\ out[0].img[k] = X[0][k] \div Unit

\* C6 (as claimed): a step call made before a reset followed by a sync is
\* rejected before any computation: in it no worker sends or receives a
\* message, and the root's X stays what it was (empty, or as reset left it).
\* Stated for a valid batch interval, min_interval >= 1.
C6_StepBeforeSyncRejected ==
  \A r \in Procs :
    (min_interval >= 1 /\ cur[r].op = "step" /\ ~cur[r].ready) =>
      /\ ~comm[r]
      /\ r = 0 => X[0] = (IF isys[0] = NoSys THEN <<>> ELSE SysX(isys[0]))

\* C7 (as claimed): with min_interval <= 0 no step call runs a relaxation
\* pass, a reconciliation or any communication. Stated for step calls made
\* after reset and sync.
C7_NonPositiveIntervalRejected ==
  \A r \in Procs :
    (min_interval <= 0 /\ cur[r].op = "step" /\ cur[r].ready) =>
      npass[r] = 0 /\ nbatch[r] = 0 /\ ~comm[r]

\* C8: after reset on the root and sync on all workers, every worker holds
\* the root's N, A (4N ids), B and X (3N values each) and offsets, and the
\* offsets are the ones computed from the root's N and n_proc, also when N
\* differs from the N installed before.
C8_SyncPostcondition ==
  \A w \in Procs :
    (/\ pc[0] = "idle" /\ pc[w] = "idle"
     /\ cur[0].op = "sync" /\ cur[w].op = "sync"
     /\ cur[0].ready
     /\ done[w] = done[0]) =>
      /\ N[w] = N[0]
      /\ A[w] = A[0] /\ Len(A[w]) = 4 * N[0]
      /\ B[w] = B[0] /\ Len(B[w]) = 3 * N[0]
      /\ X[w] = X[0] /\ Len(X[w]) = 3 * N[0]
      /\ offset[w] = offset[0]
      /\ Len(offset[w]) = n_proc + 1
      /\ \A k \in 0..n_proc :
           At(offset[w], k) =
             k * (N[0] \div n_proc) + (IF k < N[0] % n_proc THEN k ELSE N[0] % n_proc)

C8_Witness ==
  /\ n_proc = 2
  /\ pc[0] = "idle" /\ pc[1] = "idle"
  /\ cur[0].op = "sync" /\ cur[1].op = "sync"
  /\ cur[0].ready
  /\ done[1] = done[0]
  /\ oldN[1] = 2
  /\ N[1] = 1
  /\ offset[1] = <<0, 1, 1>>

\* C10: after the collect-and-broadcast that follows a batch, every worker's
\* copy of the ids of worker r's Work Range is what r computed in that batch,
\* so all workers hold the same X at the start of every batch and when step
\* returns.
AtBoundary(r) ==
  /\ InReadyStep(r)
  /\ min_interval >= 1
  /\ pc[r] \in {"report", "idle"} \/ (pc[r] = "pass" /\ jv[r] = 0)

SamePoint(w, r) ==
  /\ CallIx(w) = CallIx(r)
  /\ (pc[w] = "idle") = (pc[r] = "idle")
  /\ nbatch[w] = nbatch[r]

C10_Reconciliation ==
  \A w \in Procs : \A r \in Procs :
    /\ (/\ AtBoundary(w) /\ nbatch[w] >= 1
        /\ InReadyStep(r) /\ pc[r] \in {"pass", "report", "idle"}
        /\ SamePoint(w, r)) =>
         Slice(X[w], At(offset[w], r), At(offset[w], r + 1)) = mine[r]
    /\ (AtBoundary(w) /\ AtBoundary(r) /\ SamePoint(w, r)) => X[w] = X[r]

C10_Witness ==
  /\ n_proc = 2
  /\ AtBoundary(0) /\ AtBoundary(1)
  /\ SamePoint(0, 1)
  /\ nbatch[0] = 2
  /\ N[0] = 2
  /\ mine[1] # Slice(SysX(isys[1]), 1, 2)
  /\ Slice(X[0], 1, 2) = mine[1]
  /\ Slice(X[1], 0, 1) = mine[0]

\* C4: partition gives the k cells with mask value > 0 the ids 1..k, each
\* once, in row-major order (1 plus the number of positive cells before it),
\* gives every other cell 0, and the maximum id is the number of positive cells.
C4_Labeling ==
  ncalls > 0 =>
    LET len == mask.n * mask.m
        pos == { k \in 1..len : mask.v[k] > 0 }
    IN /\ ret.n = mask.n
       /\ ret.m = mask.m
       /\ Len(ret.v) = len
       /\ \A k \in 1..len :
            ret.v[k] = IF k \in pos
                       THEN 1 + Cardinality({ q \in pos : q < k })
                       ELSE 0
       /\ \A id \in 1..Cardinality(pos) :
            Cardinality({ k \in 1..len : ret.v[k] = id }) = 1
       /\ \A k \in 1..len : ret.v[k] <= Cardinality(pos)
       /\ pos # {} => \E k \in 1..len : ret.v[k] = Cardinality(pos)

C4_Witness ==
  /\ ncalls > 0
  /\ mask = [n |-> 2, m |-> 2, v |-> <<2, -1, 0, 2>>]
  /\ ret.v = <<1, 0, 0, 2>>

\* C9: whatever partition calls came before on the same solver, the array
\* returned for a mask is the one a fresh solver returns for it, whatever
\* the fresh solver's new storage holds: nothing is inherited from a call.
C9_PartitionPure ==
  ncalls > 0 =>
    \A fresh \in NewInts(mask.n * mask.m, <<>>) :
      ret = [n |-> mask.n, m |-> mask.m,
             v |-> PartitionLoop(mask, 0, 0, 0, fresh)]

C9_Witness ==
  /\ ncalls = 2
  /\ reshaped
  /\ \E k \in 1..Len(mask.v) : mask.v[k] <= 0

\* ------------------------------------------------ claims on the relaxation
\* a pass in which every update reads the X from before the pass
JacobiPass(Xs, As, Bs, lo, hi) ==
  [k \in 1..Len(Xs) |->
     LET i == (k - 1) \div 3
         c == (k - 1) % 3
     IN IF lo <= i /\ i < hi THEN At(UpdateChannel(Xs, As, Bs, i, c), k - 1) ELSE Xs[k]]

\* a pass that updates the range from its last variable down to its first
RECURSIVE RelaxRangeDown(_, _, _, _, _)
RelaxRangeDown(Xs, As, Bs, lo, k) ==
  IF k <= lo THEN Xs
  ELSE RelaxRangeDown(update_equation(Xs, As, Bs, k - 1), As, Bs, lo, k - 1)

\* worker r takes a step of RelaxPass that completes a pass
PassBy(r) == pc[r] = "pass" /\ npass'[r] = npass[r] + 1

\* C11 (as claimed): in a step call made after reset and sync, the X a pass
\* over a worker's Work Range leaves is computed from the X before the pass
\* alone, and is the X a pass in the opposite order leaves.
C11_JacobiSemantics ==
  [][\A r \in Procs :
       (InReadyStep(r) /\ min_interval >= 1 /\ PassBy(r)) =>
         /\ X'[r] = JacobiPass(X[r], A[r], B[r], Lo(r), Hi(r))
         /\ X'[r] = RelaxRangeDown(X[r], A[r], B[r], Lo(r), Hi(r))]_vars

\* C12: with min_interval >= 1, every worker that is in a step call made
\* after reset and sync eventually returns from it, whether its sends are
\* buffered or synchronous, and also when some Work Ranges are empty.
C12_DeadlockFreedom ==
  \A r \in 0..(MaxProc - 1) :
    (/\ r \in Procs
     /\ min_interval >= 1
     /\ cur[r].op = "step" /\ cur[r].ready
     /\ pc[r] # "idle")
      ~> (r \in Procs /\ pc[r] = "idle")

C12_Witness ==
  /\ n_proc = 2
  /\ min_interval >= 1
  /\ \A r \in Procs : cur[r].op = "step" /\ cur[r].ready /\ pc[r] = "idle"
  /\ done[0] = done[1]
  /\ N[1] = 1
  /\ Lo(1) = Hi(1)
  /\ nbatch[0] >= 2 /\ nbatch[1] >= 2

\* C13: in a step call made after reset and sync, a worker that has passed
\* the reconciliation of batch b (it runs batch b + 1 or has returned) finds
\* every worker in that call or past it, with all passes of batch b done, and
\* the root past the receives of batch b; and when the root has received
\* from every rank, every worker has done all passes of the batch and the
\* root's X holds each worker's range as that worker computed it.
C13_BarrierOrdering ==
  /\ \A w \in Procs : \A r \in Procs :
       (min_interval >= 1 /\ InReadyStep(w) /\ nbatch[w] >= 1) =>
         /\ pc[r] # "failed"
         /\ CallIx(r) >= CallIx(w)
         /\ CallIx(r) = CallIx(w) =>
              /\ npass[r] >= nbatch[w] * min_interval
              /\ r = 0 => nbatch[0] >= nbatch[w]
  /\ (min_interval >= 1 /\ InReadyStep(0) /\ pc[0] = "comm" /\ ~RecvLoopTest(rj[0])) =>
       \A r \in Procs :
         /\ CallIx(r) = CallIx(0)
         /\ pc[r] \in {"comm", "sendwait", "bcast"}
         /\ npass[r] = (nbatch[0] + 1) * min_interval
         /\ Slice(X[0], At(offset[0], r), At(offset[0], r + 1)) = mine[r]

C13_Witness ==
  /\ n_proc = 2
  /\ min_interval = 2
  /\ InReadyStep(0) /\ InReadyStep(1)
  /\ N[0] = 2
  /\ pc[1] = "pass" /\ nbatch[1] = 1
  /\ pc[0] = "comm" /\ nbatch[0] = 1 /\ rj[0] = 1

\* the ids worker r's k loop runs over
Range(r) == Lo(r)..(Hi(r) - 1)

\* C14: in a step call made after reset and sync, a pass of worker r changes
\* only variables of r's own Work Range, which lies in [0, N) and shares no
\* id with the Work Range of any other worker in the same call; every id of
\* [0, N) has exactly one owner.
C14_SingleWriter ==
  [][\A r \in Procs :
       (min_interval >= 1 /\ InReadyStep(r) /\ PassBy(r)) =>
         /\ \A id \in 0..(N[r] - 1) :
              /\ Slice(X'[r], id, id + 1) # Slice(X[r], id, id + 1) => id \in Range(r)
              /\ Cardinality({ q \in Procs :
                                 At(offset[r], q) <= id /\ id < At(offset[r], q + 1) }) = 1
         /\ \A id \in Range(r) : 0 <= id /\ id < N[r]
         /\ \A w \in Procs \ {r} :
              (InReadyStep(w) /\ CallIx(w) = CallIx(r)) => Range(w) \cap Range(r) = {}]_vars

C14_Witness ==
  /\ n_proc = 2
  /\ min_interval >= 1
  /\ InReadyStep(0) /\ InReadyStep(1)
  /\ CallIx(0) = CallIx(1)
  /\ pc[0] = "comm" /\ pc[1] = "comm"
  /\ N[0] = 2
  /\ Slice(X[0], 0, 1) # Slice(X[1], 0, 1)
  /\ Slice(X[0], 1, 2) # Slice(X[1], 1, 2)

\* C15: while a worker runs the passes of a batch, it sends nothing and
\* takes nothing from the root's broadcasts, runs at most min_interval
\* passes, and its copy of every variable outside its own Work Range stays
\* as it was when the batch began.
C15_NoCommInsideBatch ==
  [][\A r \in Procs :
       (min_interval >= 1 /\ InReadyStep(r) /\ pc[r] = "pass") =>
         /\ \A id \in 0..(N[r] - 1) :
              id \notin Range(r) => Slice(X'[r], id, id + 1) = Slice(X[r], id, id + 1)
         /\ chan'[r] = chan[r]
         /\ Len(bq'[r]) >= Len(bq[r])
         /\ comm'[r] = comm[r]
         /\ jv'[r] <= min_interval
         /\ pc'[r] \in {"pass", "comm"}]_vars

C15_Witness ==
  /\ n_proc = 2
  /\ min_interval = 2
  /\ InReadyStep(0) /\ InReadyStep(1)
  /\ CallIx(0) = CallIx(1)
  /\ N[1] = 2
  /\ isys[1].ak = "mixed"
  /\ pc[1] = "comm" /\ nbatch[1] = 1
  /\ pc[0] = "comm" /\ nbatch[0] = 1
  /\ Slice(X[0], 0, 1) = mine[0]
  /\ Slice(X[1], 0, 1) # mine[0]

\* (B[3i+c] + X[3*A[4i]+c] + X[3*A[4i+1]+c] + X[3*A[4i+2]+c] + X[3*A[4i+3]+c]) / 4
\* in float arithmetic, the sum taken left to right
Relaxed(Xs, As, Bs, i, c) ==
  LET nb(q) == Xs[3 * As[4 * i + q + 1] + c + 1]
  IN Round24(Round24(Round24(Round24(Bs[3 * i + c + 1] + nb(0)) + nb(1)) + nb(2)) + nb(3))
       \div 4

\* C16: a pass over a Work Range of one variable i is one call
\* update_equation(i): it sets each channel c of variable i to
\* (B[3i+c] + the four neighbours' channel c values) / 4, computed from the X
\* at the time of the call, and leaves every other element of X as it was.
C16_RelaxationUpdate ==
  [][\A r \in Procs :
       (PassBy(r) /\ Hi(r) = Lo(r) + 1) =>
         /\ Len(X'[r]) = Len(X[r])
         /\ \A k \in 1..Len(X[r]) :
              X'[r][k] = IF (k - 1) \div 3 = Lo(r)
                         THEN Relaxed(X[r], A[r], B[r], Lo(r), (k - 1) % 3)
                         ELSE X[r][k]]_vars

C16_Witness ==
  /\ n_proc = 2
  /\ N[1] = 2
  /\ isys[1] = [n |-> 2, ak |-> "mixed", bk |-> 12]
  /\ InReadyStep(1)
  /\ pc[1] = "comm" /\ npass[1] = 1
  /\ Lo(1) = 1 /\ Hi(1) = 2
  /\ \A c \in 0..2 :
       At(X[1], 3 + c) = Relaxed(SysX(isys[1]), A[1], B[1], 1, c)
  /\ Slice(X[1], 1, 2) # Slice(SysX(isys[1]), 1, 2)
  /\ Slice(X[1], 0, 1) = Slice(SysX(isys[1]), 0, 1)

\* |4*X[3i+c] - (sum of the 4 neighbours' channel c values) - B[3i+c]|
AbsResidual(Xs, As, Bs, i, c) ==
  LET nb(q) == Xs[3 * As[4 * i + q + 1] + c + 1]
      sum == Round24(Round24(Round24(nb(0) + nb(1)) + nb(2)) + nb(3))
  IN Abs(Round24(Round24(Round24(4 * Xs[3 * i + c + 1]) - sum) - Bs[3 * i + c + 1]))

\* the sum of the residuals of the ids 1 .. i, starting from zero
RECURSIVE ResidualSum(_, _, _, _, _)
ResidualSum(Xs, As, Bs, i, c) ==
  IF i < 1 THEN 0
  ELSE Round24(ResidualSum(Xs, As, Bs, i - 1, c) + AbsResidual(Xs, As, Bs, i, c))

\* C17: the error vector a step call returns on the root is, per channel,
\* the sum over the ids 1 .. N-1 of the absolute residual on the X the call
\* leaves; id 0 adds nothing and nothing is carried over from earlier calls.
C17_ErrorVector ==
  [][(pc[0] = "report" /\ pc'[0] = "idle") =>
       /\ X'[0] = X[0]
       /\ \A c \in 0..2 :
            /\ At(out'[0].err, c) = ResidualSum(X'[0], A'[0], B'[0], N'[0] - 1, c)
            /\ At(err'[0], c) = At(out'[0].err, c)]_vars

C17_Witness ==
  /\ min_interval = 1
  /\ pc[0] = "idle"
  /\ cur[0].op = "step" /\ cur[0].ready /\ cur[0].it = 1
  /\ ncall = 4
  /\ issued = 2 * MaxN
  /\ N[0] = 2
  /\ \A c \in 0..2 : At(out[0].err, c) > 0
  /\ \A c \in 0..2 : AbsResidual(X[0], A[0], B[0], 0, c) > 0

\* C18: no step of a worker inside a step call, from its entry to its
\* return, changes that worker's N, A, B or Work Range offsets, nor
\* n_proc or min_interval.
C18_FrameOfStep ==
  [][\A r \in Procs :
       (/\ cur'[r].op = "step"
        /\ pc[r] # "idle" \/ pc'[r] # "idle"
        /\ pc'[r] # "failed") =>
         /\ N'[r] = N[r]
         /\ A'[r] = A[r]
         /\ B'[r] = B[r]
         /\ offset'[r] = offset[r]
         /\ n_proc' = n_proc
         /\ min_interval' = min_interval]_vars

C18_Witness ==
  /\ n_proc = 2
  /\ \A r \in Procs :
       /\ InReadyStep(r) /\ pc[r] = "idle"
       /\ nbatch[r] >= 2
       /\ N[r] = 2
       /\ A[r] = SysA(isys[r])
       /\ B[r] = SysB(isys[r])
       /\ offset[r] = <<0, 1, 2>>
       /\ X[r] # SysX(isys[r])
  /\ isys[0].bk = 12

\* ------------------------------------------------ claims on composed calls
\* n passes over the range [lo, hi) of Xs
RECURSIVE Passes(_, _, _, _, _, _)
Passes(Xs, As, Bs, lo, hi, n) ==
  IF n = 0 THEN Xs ELSE Passes(RelaxRange(Xs, As, Bs, lo, hi), As, Bs, lo, hi, n - 1)

\* one batch from a common Xs: every worker runs min_interval passes over
\* its own range of its own copy, and each id is taken from its owner's copy
OneBatch(Xs, As, Bs, off) ==
  [k \in 1..Len(Xs) |->
     LET id == (k - 1) \div 3
         q == CHOOSE w \in Procs : At(off, w) <= id /\ id < At(off, w + 1)
     IN Passes(Xs, As, Bs, At(off, q), At(off, q + 1), min_interval)[k]]

RECURSIVE Batches(_, _, _, _, _)
Batches(Xs, As, Bs, off, n) ==
  IF n = 0 THEN Xs ELSE Batches(OneBatch(Xs, As, Bs, off), As, Bs, off, n - 1)

\* the X a single call step(n) leaves on every worker that starts from Xs
StepX(Xs, As, Bs, off, n) ==
  Batches(Xs, As, Bs, off, (n + min_interval - 1) \div min_interval)

\* worker r has returned from the last of the step calls cs, all made after
\* reset and sync and since its last sync
Returned(r, cs) ==
  /\ min_interval >= 1
  /\ InReadyStep(r)
  /\ pc[r] = "idle"
  /\ calls[r] = cs

\* C19: for a and b multiples of min_interval, a worker that has returned
\* from step(a) and then step(b) holds the X that a single call step(a + b)
\* leaves from the X the worker held before step(a); and a worker that has
\* returned from a single call step(n) holds that X for n.
C19_StepComposition ==
  \A r \in Procs :
    /\ \A n \in 1..(MaxIter + 1) :
         Returned(r, <<n>>) => X[r] = StepX(base[r], A[r], B[r], offset[r], n)
    /\ \A a \in 1..(MaxIter + 1) : \A b \in 1..(MaxIter + 1) :
         (Returned(r, <<a, b>>) /\ a % min_interval = 0 /\ b % min_interval = 0) =>
           X[r] = StepX(base[r], A[r], B[r], offset[r], a + b)

C19_Witness ==
  /\ n_proc = 2
  /\ min_interval = 1
  /\ Returned(0, <<1, 2>>) /\ Returned(1, <<1, 2>>)
  /\ N[0] = 2
  /\ isys[0] = [n |-> 2, ak |-> "mixed", bk |-> 12]
  /\ X[0] = StepX(base[0], A[0], B[0], offset[0], 3)
  /\ X[0] # StepX(base[0], A[0], B[0], offset[0], 2)
  /\ X[1] = X[0]

\* ------------------------------------------------ claims on the owned buffers
\* the allocated blocks no pointer field holds any more
Lost(h) == h.live \ { h.ptr[f] : f \in Fields }

\* C20 (as claimed): after any sequence of partition, reset and sync calls
\* no allocated block has been lost by a reallocation and none has been
\* deleted twice, and after the destructor no block remains allocated.
C20_BufferLifecycle ==
  /\ Lost(mem) = {}
  /\ ~mem.twice
  /\ destroyed => mem.live = {}
====
